---- MODULE Spec2Model ----
(***************************************************************************)
(* Model of src/h5file.rs (nexplore): the recursive discovery of an HDF5   *)
(* container into an owned EntityInfo tree (FileInfo::read,                *)
(* GroupInfo::try_from_group_and_link, DatasetInfo::from_dataset_and_link, *)
(* get_attrs) and the navigation of that tree (FileInfo::entity,           *)
(* FileInfo::to_tree_items).                                               *)
(*                                                                         *)
(* The container is the input: the format layer reports the links of a    *)
(* group one at a time, to the closure handed to iter_visit_default, and   *)
(* one Visit step is one invocation of that closure.  The recursion of     *)
(* try_from_group_and_link is an explicit stack of activations.            *)
(***************************************************************************)
EXTENDS Integers, Sequences, FiniteSets, TLC

\* Bounds of the model.
MaxLinks == 3        \* links (at any depth) in a container
MaxIndex == 1        \* largest index in a path given to FileInfo::entity
MaxPathLen == 3      \* longest path given to FileInfo::entity

\* The link names of the siblings of one group.  The format layer reports
\* them from either end of this sequence inwards: its order need not be
\* alphabetical.
Names == <<"a", "b", "c", "x", "y", "z">>

VARIABLES
    path,       \* the argument of FileInfo::read
    container,  \* what File::open(path) exposes: the root group (with the links
                \* reported so far, once the load is over) and the file size
    pc,         \* "start" | "walk" | "done": where FileInfo::read is
    stack,      \* activations of try_from_group_and_link, innermost first
    outcome,    \* how FileInfo::read ended: a Result, or a panic
    call        \* the last call on the loaded FileInfo and what it returned

vars == <<path, container, pc, stack, outcome, call>>

----------------------------------------------------------------------------
\* Result<T, anyhow::Error>, Option<T> and a panic.  An anyhow error is its
\* message; a panic is the third way a call can end.
Ok(v) == [tag |-> "Ok", val |-> v]
Err(m) == [tag |-> "Err", msg |-> m]
Panicked == [tag |-> "Panic"]
Pending == [tag |-> "Pending"]

IsOk(r) == r.tag = "Ok"
IsErr(r) == r.tag = "Err"

----------------------------------------------------------------------------
\* The container: objects of the format layer.

\* An attribute the format layer lists for a location; `opens` is whether
\* location.attr(name) succeeds.
Attr(n, o) == [name |-> n, opens |-> o]

\* A link target without its name.  kind "none" is a link that opens neither
\* as a group nor as a dataset (a dangling soft link, a committed datatype).
Object(kind, link_type, listing, attrs, layout, chunk, filters, shape, dtype) ==
    [kind |-> kind, link_type |-> link_type, attr_names |-> listing,
     attrs |-> attrs, layout |-> layout, chunk |-> chunk, filters |-> filters,
     shape |-> shape, dtype |-> dtype, links |-> <<>>, name |-> ""]

GoodAttrs == <<Attr("NX_class", TRUE)>>
BadAttrs == <<Attr("NX_class", TRUE), Attr("units", FALSE)>>

GroupObjects ==
    { Object("group", "Hard", "Ok", GoodAttrs, "", <<>>, <<>>, <<>>, ""),
      Object("group", "Soft", "Err", <<>>, "", <<>>, <<>>, <<>>, ""),
      Object("group", "Hard", "Ok", BadAttrs, "", <<>>, <<>>, <<>>, "") }

DatasetObjects ==
    { Object("dataset", "Hard", "Ok", GoodAttrs, "Contiguous", <<>>, <<>>, <<3>>, "Ok"),
      Object("dataset", "External", "Err", <<>>, "Chunked", <<<<2, 2>>>>,
             <<"deflate">>, <<4, 4>>, "Ok"),
      Object("dataset", "Hard", "Ok", <<>>, "Chunked", <<>>, <<>>, <<4>>, "Ok"),
      Object("dataset", "Soft", "Ok", <<>>, "Compact", <<>>, <<>>, <<>>, "NoDescriptor") }

OtherObjects ==
    { Object("none", "Soft", "Err", <<>>, "", <<>>, <<>>, <<>>, "") }

Objects == GroupObjects \cup DatasetObjects \cup OtherObjects

\* The key of the next link of a group, after the links `seen`.
NextKeys(seen) ==
    IF seen = <<>> THEN { Names[1], Names[Len(Names)] }
    ELSE IF seen[1].name = Names[1] THEN { Names[Len(seen) + 1] }
    ELSE { Names[Len(Names) - Len(seen)] }

\* The number of links below an object, at any depth.
RECURSIVE Size(_), SizeAll(_)
Size(obj) == SizeAll(obj.links)
SizeAll(links) ==
    IF links = <<>> THEN 0 ELSE 1 + Size(Head(links)) + SizeAll(Tail(links))

FixtureSize == 45656

Containers == { [opens |-> TRUE, root |-> g, size |-> FixtureSize] : g \in GroupObjects }
NoContainer == [opens |-> FALSE, size |-> 0,
                root |-> Object("none", "Hard", "Err", <<>>, "", <<>>, <<>>, <<>>, "")]

----------------------------------------------------------------------------
\* The descriptors built from the container.

\* EntityInfo: a tagged union of GroupInfo and DatasetInfo.
Group(info) == [tag |-> "Group", info |-> info]
Dataset(info) == [tag |-> "Dataset", info |-> info]

\* impl From<LinkType> for LinkKind
LinkKindFrom(value) ==
    CASE value = "Hard" -> "Hard"
      [] value = "Soft" -> "Soft"
      [] value = "External" -> "External"

\* location.name(): "/" for the root, "/a/b" below it; split('/') of it.
Segments(keys) == IF keys = <<>> THEN <<"", "">> ELSE <<"">> \o keys
\* name().split('/').next_back().unwrap()
LastSegment(keys) == Segments(keys)[Len(Segments(keys))]

\* format!("{:?}", value) of an opened attribute
DebugFmt(a) == [debug |-> a.name]

\* get_attrs: a HashMap as a set of <<key, value>> pairs.  A failed listing
\* gives the empty map; a listed attribute that does not open is an unwrap
\* of an Err, a panic.
get_attrs(location) ==
    IF location.attr_names # "Ok"
    THEN Ok({})
    ELSE IF \E i \in 1..Len(location.attrs) : ~location.attrs[i].opens
         THEN Panicked
         ELSE Ok({ <<location.attrs[i].name, DebugFmt(location.attrs[i])>>
                   : i \in 1..Len(location.attrs) })

\* The match on dataset.layout(); chunk() is an Option, unwrapped for Chunked.
LayoutInfo(dataset) ==
    CASE dataset.layout = "Compact" -> Ok([tag |-> "Compact"])
      [] dataset.layout = "Contiguous" -> Ok([tag |-> "Contiguous"])
      [] dataset.layout = "Chunked" ->
            IF dataset.chunk = <<>>
            THEN Panicked
            ELSE Ok([tag |-> "Chunked", chunk_shape |-> dataset.chunk[1],
                     filters |-> dataset.filters])
      [] dataset.layout = "Virtual" -> Ok([tag |-> "Virtial"])

\* dataset.dtype().unwrap().to_descriptor().unwrap()
DtypeDescr(dataset) ==
    IF dataset.dtype = "Ok" THEN Ok("TypeDescriptor") ELSE Panicked

\* DatasetInfo::from_dataset_and_link: the DatasetInfo, or a panic.
from_dataset_and_link(dataset, keys, link_type) ==
    IF LayoutInfo(dataset).tag = "Panic" THEN Panicked
    ELSE IF DtypeDescr(dataset).tag = "Panic" THEN Panicked
    ELSE IF get_attrs(dataset).tag = "Panic" THEN Panicked
    ELSE Ok([name |-> LastSegment(keys),
             link_type |-> LinkKindFrom(link_type),
             shape |-> dataset.shape,
             layout_info |-> LayoutInfo(dataset).val,
             dtype_descr |-> DtypeDescr(dataset).val,
             attrs |-> get_attrs(dataset).val])

\* A variant of the error that carries the key of the link.
UnknownKindErrorWithKey(key) == Err(key)

\* anyhow!("Found link to entity of unknown kind"): the closure has the key
\* of the link at hand and leaves it out of the error.
UnknownKindError(key) == Err("Found link to entity of unknown kind")

\* A variant of the push that puts the newest entity first.
PushFront(entities, entity) == <<entity>> \o entities

\* entities.push(entity)
Push(entities, entity) == Append(entities, entity)

\* .into_iter().collect::<Result<Vec<_>, _>>(): the values if all are Ok,
\* else the first Err in the order of the vector.
RECURSIVE Collect(_)
Collect(results) ==
    IF results = <<>> THEN Ok(<<>>)
    ELSE IF IsErr(Head(results)) THEN Head(results)
    ELSE IF IsErr(Collect(Tail(results))) THEN Collect(Tail(results))
    ELSE Ok(<<Head(results).val>> \o Collect(Tail(results)).val)

----------------------------------------------------------------------------
\* GroupInfo::try_from_group_and_link, one activation per group.

\* The state of one activation: the group (with the links reported to the
\* closure so far) and its name segments, the link it was reached by, the
\* attributes read on entry and the Vec the closure pushes to.  `failed` is
\* an iteration the format layer ended with an error.
Frame(group, keys, link_type, attrs) ==
    [group |-> group, keys |-> keys, link_type |-> link_type, attrs |-> attrs,
     entities |-> <<>>, failed |-> FALSE]

\* The Err of iter_visit_default, passed on by the first `?`.
IterationError == Err("HDF5 iteration failed")

\* What the activation returns once the iteration is over.
GroupResult(frame) ==
    IF frame.failed THEN IterationError
    ELSE IF IsErr(Collect(frame.entities)) THEN Collect(frame.entities)
    ELSE Ok([name |-> LastSegment(frame.keys),
             link_kind |-> LinkKindFrom(frame.link_type),
             entities |-> Collect(frame.entities).val,
             attrs |-> frame.attrs])

\* .map(EntityInfo::Group)
MapGroup(result) == IF IsOk(result) THEN Ok(Group(result.val)) ELSE result

----------------------------------------------------------------------------
\* FileInfo

\* Path::file_name(): None for a path that ends in "..".
FileName(p) ==
    IF p = <<>> \/ p[Len(p)] = ".." THEN <<>> ELSE <<p[Len(p)]>>

\* A variant of the tail of FileInfo::read that keeps the root group as the
\* one top-level entity.
ReadResultKeepsRoot(p, size, root) ==
    IF IsErr(root) THEN root
    ELSE Ok([name |-> FileName(p)[1], size |-> size,
             entities |-> <<Group(root.val)>>])

\* The tail of FileInfo::read: the root GroupInfo's entities become the
\* FileInfo's.
ReadResult(p, size, root) ==
    IF IsErr(root) THEN root
    ELSE Ok([name |-> FileName(p)[1], size |-> size,
             entities |-> root.val.entities])

\* A variant of the descent that takes a dataset for a group without
\* entities.
RECURSIVE DescendNoKindCheck(_, _)
DescendNoKindCheck(entity, indices) ==
    IF indices = <<>> THEN Ok(entity)
    ELSE IF entity.tag = "Group" /\ Head(indices) < Len(entity.info.entities)
         THEN DescendNoKindCheck(entity.info.entities[Head(indices) + 1], Tail(indices))
         ELSE Err("Index was empty")

\* FileInfo::entity: the loop over the indices after the first.
RECURSIVE Descend(_, _)
Descend(entity, indices) ==
    IF indices = <<>> THEN Ok(entity)
    ELSE IF entity.tag = "Group"
         THEN IF Head(indices) < Len(entity.info.entities)
              THEN Descend(entity.info.entities[Head(indices) + 1], Tail(indices))
              ELSE Err("Index was empty")
         ELSE Err("Cannot index into a dataset")

\* A variant of FileInfo::entity that stops at the first index.
entityFirstIndexOnly(self, index) ==
    IF index = <<>> THEN Err("Index was empty")
    ELSE IF ~(Head(index) < Len(self.entities)) THEN Err("No entity at index")
    ELSE Ok(self.entities[Head(index) + 1])

\* FileInfo::entity
entity(self, index) ==
    IF index = <<>> THEN Err("Index was empty")
    ELSE IF ~(Head(index) < Len(self.entities)) THEN Err("No entity at index")
    ELSE Descend(self.entities[Head(index) + 1], Tail(index))

\* TreeItem::from(EntityInfo): the view node of an entity; the widgets
\* module is not part of the sources at hand.
RECURSIVE TreeItemFrom(_)
TreeItemFrom(value) ==
    IF value.tag = "Group"
    THEN [text |-> value.info.name,
          children |-> [i \in 1..Len(value.info.entities)
                          |-> TreeItemFrom(value.info.entities[i])]]
    ELSE [text |-> value.info.name, children |-> <<>>]

\* FileInfo::to_tree_items
to_tree_items(self) ==
    [i \in 1..Len(self.entities) |-> TreeItemFrom(self.entities[i])]

----------------------------------------------------------------------------
\* The state machine.

NoCall == [op |-> "none", index |-> <<>>, ret |-> Pending]

RECURSIVE SeqsUpTo(_, _)
SeqsUpTo(S, n) ==
    IF n = 0 THEN { <<>> }
    ELSE SeqsUpTo(S, n - 1)
         \cup { Append(q, x) : q \in { r \in SeqsUpTo(S, n - 1) : Len(r) = n - 1 }, x \in S }

Paths == SeqsUpTo(0..MaxIndex, MaxPathLen)

\* The root group with every link reported so far: each activation's group
\* becomes the last link of its caller's group.
RECURSIVE Reported(_)
Reported(frames) ==
    IF Len(frames) = 1 THEN frames[1].group
    ELSE Reported(<<[frames[2] EXCEPT !.group.links = Append(@, frames[1].group)]>>
                  \o SubSeq(frames, 3, Len(frames)))

\* The objects in which no link is of unknown kind and nothing panics:
\* every listed attribute opens, every dataset exposes its chunk shape and
\* element type.
SoundObjects ==
    { obj \in Objects :
        /\ obj.kind # "none"
        /\ get_attrs(obj).tag = "Ok"
        /\ obj.kind = "dataset" => from_dataset_and_link(obj, <<>>, obj.link_type).tag = "Ok" }

Start ==
    /\ pc = "start"
    /\ stack = <<>>
    /\ outcome = Pending
    /\ call = NoCall

Init ==
    /\ \/ /\ path = <<"tests", "simple_nexus.h5">>
          /\ container \in Containers
       \/ /\ path \in { <<"tests", "..">>, <<"tests", "missing.h5">> }
          /\ container = NoContainer
    /\ Start

\* FileInfo::read up to the call of try_from_group_and_link on the root.
Read ==
    /\ pc = "start"
    /\ IF FileName(path) = <<>>
       THEN /\ outcome' = Err("No file in path")
            /\ pc' = "done"
            /\ stack' = stack
       ELSE IF ~container.opens
       THEN /\ outcome' = Err("unable to open file")
            /\ pc' = "done"
            /\ stack' = stack
       ELSE IF get_attrs(container.root).tag = "Panic"
       THEN /\ outcome' = Panicked
            /\ pc' = "done"
            /\ stack' = stack
       ELSE /\ stack' = <<Frame(container.root, <<>>, "Hard",
                                get_attrs(container.root).val)>>
            /\ pc' = "walk"
            /\ outcome' = outcome
    /\ UNCHANGED <<path, container, call>>

\* A panic inside the closure, at the link `link`.  The closure runs under
\* the format layer's C iteration, which a panic cannot unwind through:
\* the build either aborts the process, or the binding traps the panic and
\* ends the iteration, and then iter_visit_default returns an Err that the
\* `?` after the closure passes on.  Both outcomes are kept.
PanicInClosure(link) ==
    LET seen == [stack EXCEPT ![1].group.links = Append(@, link)]
    IN  \E trapped \in BOOLEAN :
            IF trapped
            THEN /\ stack' = [seen EXCEPT ![1].failed = TRUE]
                 /\ UNCHANGED <<pc, outcome, container>>
            ELSE /\ stack' = <<>>
                 /\ pc' = "done"
                 /\ outcome' = Panicked
                 /\ container' = [container EXCEPT !.root = Reported(seen)]

\* One invocation of the closure: the format layer reports the next link of
\* the innermost group, one of `objects` under the next key.
Visit(objects) ==
    /\ pc = "walk"
    /\ ~Head(stack).failed
    /\ Size(Reported(stack)) < MaxLinks
    /\ \E obj \in objects, key \in NextKeys(Head(stack).group.links) :
          LET frame == Head(stack)
              link == [obj EXCEPT !.name = key]
              keys == Append(frame.keys, key)
          IN  CASE link.kind = "group" ->
                     IF get_attrs(link).tag = "Panic"
                     THEN PanicInClosure(link)
                     ELSE /\ stack' = <<Frame(link, keys, link.link_type,
                                              get_attrs(link).val)>> \o stack
                          /\ UNCHANGED <<pc, outcome, container>>
                [] link.kind = "dataset" ->
                     IF from_dataset_and_link(link, keys, link.link_type).tag = "Panic"
                     THEN PanicInClosure(link)
                     ELSE /\ stack' = [stack EXCEPT
                               ![1].entities = Push(@, Ok(Dataset(
                                   from_dataset_and_link(link, keys, link.link_type).val))),
                               ![1].group.links = Append(@, link)]
                          /\ UNCHANGED <<pc, outcome, container>>
                [] OTHER ->
                     /\ stack' = [stack EXCEPT
                            ![1].entities = Push(@, UnknownKindError(key)),
                            ![1].group.links = Append(@, link)]
                     /\ UNCHANGED <<pc, outcome, container>>
    /\ UNCHANGED <<path, call>>

VisitAny == Visit(Objects)

VisitSound == Visit(SoundObjects)

\* The end of one activation: the format layer has no further link to
\* report (or has failed), the results are collected, and the GroupInfo or
\* the error goes to the caller: the closure of the parent group, or
\* FileInfo::read.
Return ==
    /\ pc = "walk"
    /\ IF Len(stack) = 1
       THEN /\ outcome' = ReadResult(path, container.size, GroupResult(Head(stack)))
            /\ pc' = "done"
            /\ stack' = <<>>
            /\ container' = [container EXCEPT !.root = Reported(stack)]
       ELSE /\ stack' = [Tail(stack) EXCEPT
                   ![1].entities = Push(@, MapGroup(GroupResult(Head(stack)))),
                   ![1].group.links = Append(@, Head(stack).group)]
            /\ UNCHANGED <<pc, outcome, container>>
    /\ UNCHANGED <<path, call>>

\* A call of FileInfo::entity on the loaded FileInfo.
Entity ==
    /\ pc = "done"
    /\ IsOk(outcome)
    /\ call = NoCall
    /\ \E index \in Paths :
          call' = [op |-> "entity", index |-> index, ret |-> entity(outcome.val, index)]
    /\ UNCHANGED <<path, container, pc, stack, outcome>>

\* A call of FileInfo::to_tree_items on the loaded FileInfo.
ToTreeItems ==
    /\ pc = "done"
    /\ IsOk(outcome)
    /\ call' = [op |-> "to_tree_items", index |-> <<>>,
                ret |-> [tag |-> "Items", val |-> to_tree_items(outcome.val)]]
    /\ UNCHANGED <<path, container, pc, stack, outcome>>

\* The load and the projection of its result, over every container.
Next == Read \/ VisitAny \/ Return \/ ToTreeItems

Spec == Init /\ [][Next]_vars

\* The load of a container in which nothing fails and one call of
\* FileInfo::entity on the result (the tree is never changed, so a later
\* call sees the same tree).
NextEntity == Read \/ VisitSound \/ Return \/ Entity

SpecEntity == Init /\ [][NextEntity]_vars

----------------------------------------------------------------------------
\* What the claims speak of.

\* Every link reported below an object, at any depth.
RECURSIVE Below(_)
Below(obj) ==
    UNION { {obj.links[i]} \cup Below(obj.links[i]) : i \in 1..Len(obj.links) }

Loaded == pc = "done" /\ IsOk(outcome)

\* The tree mirrors the links: the k-th entity is a node of the kind and
\* name of the k-th link, and so on below every group.
RECURSIVE Mirrors(_, _)
Mirrors(entities, links) ==
    /\ Len(entities) = Len(links)
    /\ \A k \in 1..Len(entities) :
          /\ entities[k].info.name = links[k].name
          /\ entities[k].tag = "Group" <=> links[k].kind = "group"
          /\ entities[k].tag = "Dataset" <=> links[k].kind = "dataset"
          /\ entities[k].tag = "Group" =>
                Mirrors(entities[k].info.entities, links[k].links)

\* The node that a non-empty path addresses by plain descent, entities[i0]
\* of the file and entities[ij] of each group after it: <<node>>, or <<>>
\* where an index is out of range or a node on the way is no group.
RECURSIVE At(_, _)
At(entities, index) ==
    IF index = <<>> \/ Head(index) >= Len(entities) THEN <<>>
    ELSE IF Len(index) = 1 THEN <<entities[Head(index) + 1]>>
    ELSE IF entities[Head(index) + 1].tag = "Group"
         THEN At(entities[Head(index) + 1].info.entities, Tail(index))
         ELSE <<>>

Called(op) == pc = "done" /\ IsOk(outcome) /\ call.op = op

\* A proper prefix of the path addresses a dataset.
ThroughDataset(entities, index) ==
    \E k \in 1..(Len(index) - 1) :
        /\ At(entities, SubSeq(index, 1, k)) # <<>>
        /\ At(entities, SubSeq(index, 1, k))[1].tag = "Dataset"

\* An index at the second or a later position is beyond the end of the
\* group that the path before it addresses.
BeyondGroup(entities, index) ==
    \E k \in 1..(Len(index) - 1) :
        /\ At(entities, SubSeq(index, 1, k)) # <<>>
        /\ At(entities, SubSeq(index, 1, k))[1].tag = "Group"
        /\ index[k + 1] >= Len(At(entities, SubSeq(index, 1, k))[1].info.entities)

\* Only attributes fail in the container: every link opens as a group or a
\* dataset, and every dataset exposes its chunk shape and element type.
OnlyAttributesFail ==
    /\ container.opens
    /\ \A l \in Below(container.root) :
          /\ l.kind # "none"
          /\ l.kind = "dataset" =>
                LayoutInfo(l).tag = "Ok" /\ DtypeDescr(l).tag = "Ok"

\* No attribute fails to open, in the root or below it.
AttributesOpen ==
    \A l \in {container.root} \cup Below(container.root) : get_attrs(l).tag = "Ok"

----------------------------------------------------------------------------
\* The claims.

\* C1: the load is all-or-nothing.  Once FileInfo::read has ended on a
\* container in which some link, at any depth, opens neither as a group nor
\* as a dataset, it has returned an error; and a FileInfo it returns
\* mirrors every link of every group.
C1_AllOrNothing ==
    pc = "done" =>
        /\ (\E l \in Below(container.root) : l.kind = "none") => IsErr(outcome)
        /\ IsOk(outcome) => Mirrors(outcome.val.entities, container.root.links)

\* C2, as stated: the error recorded for a link of unknown kind identifies
\* the link, so that the errors of two failing links of a group differ.
C2_ErrorNamesLink ==
    \A f \in 1..Len(stack) : \A i, j \in 1..Len(stack[f].entities) :
        ( /\ i # j
          /\ stack[f].group.links[i].kind = "none"
          /\ stack[f].group.links[j].kind = "none" )
        => stack[f].entities[i] # stack[f].entities[j]

\* C2, amended: the error recorded for a link of unknown kind is the fixed
\* message of the closure, whatever the link's name, and a group with such
\* a link never yields a GroupInfo.
C2_ErrorIsFixedMessage ==
    \A f \in 1..Len(stack) : \A i \in 1..Len(stack[f].entities) :
        stack[f].group.links[i].kind = "none"
        => /\ stack[f].entities[i] = Err("Found link to entity of unknown kind")
           /\ IsErr(GroupResult(stack[f]))

C2_Witness ==
    \E f \in 1..Len(stack) : \E i, j \in 1..Len(stack[f].entities) :
        /\ i # j
        /\ stack[f].group.links[i].kind = "none"
        /\ stack[f].group.links[j].kind = "none"
        /\ stack[f].group.links[i].name # stack[f].group.links[j].name
        /\ stack[f].entities[i] = stack[f].entities[j]

\* C3: a path that goes on beyond a dataset fails with "Cannot index into a
\* dataset", whatever the indices after the dataset are; a path that ends
\* at a dataset returns it.
C3_NotIndexable ==
    Called("entity") =>
        /\ ThroughDataset(outcome.val.entities, call.index)
              => call.ret = Err("Cannot index into a dataset")
        /\ ( /\ At(outcome.val.entities, call.index) # <<>>
              /\ At(outcome.val.entities, call.index)[1].tag = "Dataset" )
              => IsOk(call.ret)

C3_Witness ==
    /\ Called("entity")
    /\ Len(call.index) = 3
    /\ At(outcome.val.entities, SubSeq(call.index, 1, 1)) # <<>>
    /\ At(outcome.val.entities, SubSeq(call.index, 1, 1))[1].tag = "Dataset"
    /\ call.index[2] > 0
    /\ call.ret = Err("Cannot index into a dataset")

\* C4: an index beyond the end of a group at the second or a later position
\* fails with the error of an out-of-range first index, which is not the
\* error of the empty path.
C4_SameOutOfRange ==
    ( /\ Called("entity")
      /\ BeyondGroup(outcome.val.entities, call.index) )
    => /\ call.ret = entity(outcome.val, <<Len(outcome.val.entities)>>)
       /\ call.ret # entity(outcome.val, <<>>)

\* C5: a path whose indices are all in range and whose proper prefixes all
\* address groups returns the node that plain descent reaches; path [i]
\* returns the i-th top-level entity.
C5_Resolves ==
    Called("entity") =>
        /\ At(outcome.val.entities, call.index) # <<>>
              => call.ret = Ok(At(outcome.val.entities, call.index)[1])
        /\ ( Len(call.index) = 1 /\ call.index[1] < Len(outcome.val.entities) )
              => call.ret = Ok(outcome.val.entities[call.index[1] + 1])

\* A path through two groups to a dataset.
C5_Witness ==
    /\ Called("entity")
    /\ Len(call.index) = 3
    /\ At(outcome.val.entities, call.index) # <<>>
    /\ IsOk(call.ret)
    /\ call.ret.val.tag = "Dataset"
    /\ call.ret.val.info.name = "z"

\* C6: in a built tree the k-th entity of every group, and of the file, is
\* built from the k-th link that the format layer reported for it.
C6_DiscoveryOrder ==
    /\ Loaded => Mirrors(outcome.val.entities, container.root.links)
    /\ \A f \in 1..Len(stack) :
          IsOk(GroupResult(stack[f]))
          => Mirrors(GroupResult(stack[f]).val.entities, stack[f].group.links)

\* Two siblings, a group and a dataset, reported against the alphabet.
C6_Witness ==
    /\ Loaded
    /\ Len(outcome.val.entities) = 2
    /\ outcome.val.entities[1].info.name = "z"
    /\ outcome.val.entities[2].info.name = "y"
    /\ outcome.val.entities[1].tag = "Dataset"
    /\ outcome.val.entities[2].tag = "Group"

C8_AttributesNotFatal ==
    (pc = "done" /\ OnlyAttributesFail) => IsOk(outcome)

\* C9: where no attribute fails, the load ends with a FileInfo or an error
\* value, and with an error value if a dataset does not expose its chunk
\* shape or element type.
C9_FormatErrorIsValue ==
    (pc = "done" /\ AttributesOpen) =>
        /\ outcome.tag \in {"Ok", "Err"}
        /\ (\E l \in Below(container.root) :
                l.kind = "dataset"
                /\ (LayoutInfo(l).tag = "Panic" \/ DtypeDescr(l).tag = "Panic"))
             => IsErr(outcome)

\* C10: the error that a group build returns is that of its earliest
\* failing child, every link of the group having been visited.
C10_EarliestError ==
    \A f \in 1..Len(stack) : \A i \in 1..Len(stack[f].entities) :
        ( /\ IsErr(stack[f].entities[i])
          /\ \A h \in 1..(i - 1) : IsOk(stack[f].entities[h]) )
        => /\ GroupResult(stack[f]) = stack[f].entities[i]
           /\ Len(stack[f].entities) = Len(stack[f].group.links)

====
